---- MODULE Spec2Model ----
(***************************************************************************)
(* Model of the Phabricator backend of perceval                            *)
(* (perceval/backends/phabricator.py): the fetch generator, the paginated  *)
(* Conduit client, the identity cache `_users` and the raw-response cache  *)
(* queue.                                                                  *)
(*                                                                         *)
(* One generator is live on the backend object at a time.  A session       *)
(* starts at the first pull of a generator returned by fetch() (a Python   *)
(* generator runs no code before that); starting a new session while the   *)
(* previous generator is suspended at a yield abandons the previous one.   *)
(*                                                                         *)
(* Optional values (Python None / a key that is not present) are encoded   *)
(* as sequences of length 0 or 1: None is << >>, a value v is <<v>>.       *)
(***************************************************************************)
EXTENDS Integers, Sequences, FiniteSets, TLC

\* ------------------------------------------------------------------ bounds
MaxSessions == 2    \* fetch sessions started on one backend object
MaxCalls == 5       \* RPC calls the server answers normally; later calls fail

\* ------------------------------------------------------------- data values
NULL == "NULL"          \* JSON null
ABSENT == "ABSENT"      \* a key that is not present in a dict
None == << >>
Some(v) == <<v>>

Users == {"PHID-USER-1", "PHID-USER-2"}
\* The tasks stored on the server; the identifier of a task is its position.
\* Tasks 1 and 3 share their author, task 2 has another one.
Catalogue ==
    <<[id |-> 1, authorPHID |-> "PHID-USER-1", ownerPHID |-> "PHID-USER-1"],
      [id |-> 2, authorPHID |-> "PHID-USER-2", ownerPHID |-> "PHID-USER-1"],
      [id |-> 3, authorPHID |-> "PHID-USER-1", ownerPHID |-> "PHID-USER-2"]>>
TaskIds == DOMAIN Catalogue
\* cursor values a listing response can carry in result.cursor.after
Cursors == {ABSENT, NULL, "", "c1", "c2"}
RemoteErrors == {[code |-> "ERR-INVALID-AUTH", info |-> "bad token"]}

MANIPHEST_TASKS == "maniphest.search"
MANIPHEST_TRANSACTIONS == "maniphest.gettasktransactions"
PHAB_USERS == "user.query"

\* str(task['id'])
Digit == <<"1", "2", "3", "4", "5", "6", "7", "8", "9">>
Str(n) == Digit[n]

EmptyMap == [x \in {} |-> NULL]
Put(f, k, v) == [x \in (DOMAIN f) \cup {k} |-> IF x = k THEN v ELSE f[x]]

\* ------------------------------------------------------ server responses
\* The envelope of a response: HTTP status, error_code, error_info, result.
Envelope(result) ==
    [http |-> 200, error_code |-> NULL, error_info |-> NULL, result |-> result]
TransportFailures ==
    {[http |-> 500, error_code |-> NULL, error_info |-> NULL, result |-> << >>]}
RemoteFailures ==
    {[http |-> 200, error_code |-> e.code, error_info |-> e.info, result |-> << >>] :
        e \in RemoteErrors}

RawTask == {Catalogue[i] : i \in TaskIds}
\* a listing page: tasks of the server, by ascending id
Pages ==
    {p \in UNION {[1..n -> RawTask] : n \in 0..Len(Catalogue)} :
        \A i \in 1..(Len(p) - 1) : p[i].id < p[i + 1].id}
TasksResponses ==
    {Envelope([data |-> p, cursor |-> c]) : p \in Pages, c \in Cursors}

\* the transactions the server reports for a task: none, or one by any user
RawTrans == [authorPHID : Users]
TransLists == {<< >>} \cup {<<t>> : t \in RawTrans}
TransResponses(ids) ==
    {Envelope(m) : m \in UNION {[D -> TransLists] :
                                   D \in SUBSET {Str(ids[i]) : i \in DOMAIN ids}}}

UsersResponses(user_id) ==
    {Envelope(<< >>), Envelope(<<[phid |-> user_id]>>)}

\* ------------------------------------------------------------------ state
VARIABLES
    pc,           \* position of the fetch generator
    sess,         \* number of sessions started on the backend object
    ncalls,       \* RPC calls issued on the backend object
    users,        \* Phabricator._users
    cache_queue,  \* Backend.cache_queue
    cache,        \* the cache sink: the units persisted by the flushes
    after,        \* params['after'] of ConduitClient.tasks
    cursor,       \* cursor of the listing response the tasks generator holds
    tasks,        \* the parsed tasks of the current page
    idx,          \* index in tasks of the task being enriched
    tasks_trans,  \* the parsed transactions of the current page
    pending,      \* transactions whose author is still to be resolved
    current,      \* the task the consumer holds
    ntasks,       \* fetch's counter of delivered tasks
    error,        \* the exception that ended the generator
    page,         \* listing responses received in this session
    received,     \* tasks of the listing responses received in this session
    yielded,      \* tasks yielded in this session
    pageYielded,  \* tasks yielded from the current page
    lookups,      \* user.query calls of this session, per user identifier
    flushes,      \* flushes since the current page was received
    purged,       \* entries the purge of this session discarded
    last          \* the method and the envelope of the last RPC call

vars == <<pc, sess, ncalls, users, cache_queue, cache, after, cursor, tasks,
          idx, tasks_trans, pending, current, ntasks, error, page, received,
          yielded, pageYielded, lookups, flushes, purged, last>>

NoError == [type |-> "none", code |-> NULL, info |-> NULL]
NoLookups == [u \in Users |-> 0]
NoCall == [method |-> "none", http |-> 200, error_code |-> NULL,
           error_info |-> NULL]
Called(method, resp) ==
    [method |-> method, http |-> resp.http, error_code |-> resp.error_code,
     error_info |-> resp.error_info]

\* ------------------------------------------------- Backend cache queue
\* perceval/backend.py is not part of the sources; the three operations
\* follow the description of the Response Cache Queue.
PushCacheQueue(queue, item) == Append(queue, item)
PurgeCacheQueue(queue) == << >>
\* the sink and the queue after a flush: the queue is persisted as one unit
FlushCacheQueue(sink, queue) ==
    [sink |-> Append(sink, [s |-> sess, items |-> queue]), queue |-> << >>]

\* A queue entry stands for one raw response: the method, the session and
\* page it was received in, and the user it describes (user.query) or NULL.
Entry(method, p, user) ==
    [m |-> method, s |-> sess, p |-> p, u |-> user]

\* ------------------------------------------------------- ConduitClient
\* ConduitError(error=..., code=...)
ConduitError(info, code) == [type |-> "ConduitError", code |-> code, info |-> info]

\* ConduitClient._call: the outcome for the response the server sends
CallRaising(resp, err) ==
    IF resp.http # 200
    THEN [raised |-> TRUE,
          error |-> [type |-> "HTTPError", code |-> NULL, info |-> NULL]]
    ELSE IF resp.error_code # NULL
    THEN [raised |-> TRUE, error |-> err]
    ELSE [raised |-> FALSE, error |-> NoError]

CallSwapsCode(resp) ==
    CallRaising(resp, ConduitError(resp.error_code, resp.error_info))

Call(resp) == CallRaising(resp, ConduitError(resp.error_info, resp.error_code))

\* The server answers MaxCalls calls normally; every call can fail.
Failures == TransportFailures \cup RemoteFailures
Answers(ok) == IF ncalls < MaxCalls THEN ok ELSE {}

Init ==
    /\ pc = "init"
    /\ sess = 0
    /\ ncalls = 0
    /\ users = EmptyMap
    /\ cache_queue = << >>
    /\ cache = << >>
    /\ after = ABSENT
    /\ cursor = ABSENT
    /\ tasks = << >>
    /\ idx = 0
    /\ tasks_trans = EmptyMap
    /\ pending = << >>
    /\ current = None
    /\ ntasks = 0
    /\ error = NoError
    /\ page = 0
    /\ received = 0
    /\ yielded = 0
    /\ pageYielded = 0
    /\ lookups = NoLookups
    /\ flushes = 0
    /\ purged = 0
    /\ last = NoCall

\* an exception leaves the generator
RaiseAndRetry(err) ==
    /\ pc' = pc
    /\ error' = err
    /\ current' = None

Raise(err) ==
    /\ pc' = "failed"
    /\ error' = err
    /\ current' = None

KeyError == [type |-> "KeyError", code |-> NULL, info |-> NULL]
IndexError == [type |-> "IndexError", code |-> NULL, info |-> NULL]

\* -------------------------------------------------------------- parsing
\* Phabricator.parse_tasks; the enrichment keys are not present yet
ParseTasks(resp) ==
    [i \in DOMAIN resp.result.data |->
        [id |-> resp.result.data[i].id,
         authorPHID |-> resp.result.data[i].authorPHID,
         ownerPHID |-> resp.result.data[i].ownerPHID,
         authorData |-> None, ownerData |-> None, transactions |-> None]]

\* Phabricator.parse_tasks_transactions
ParseTasksTransactions(resp) ==
    [k \in DOMAIN resp.result |->
        [i \in DOMAIN resp.result[k] |->
            [authorPHID |-> resp.result[k][i].authorPHID, authorData |-> None]]]

\* Phabricator.parse_users
ParseUsers(resp) == resp.result

\* the order in which lines 126-127 visit the transactions: by task, then
\* by position
RECURSIVE PendingFrom(_, _)
PendingFrom(m, n) ==
    IF n \notin TaskIds THEN << >>
    ELSE (IF Str(n) \in DOMAIN m
          THEN [k \in 1..Len(m[Str(n)]) |-> [tid |-> Str(n), k |-> k]]
          ELSE << >>) \o PendingFrom(m, n + 1)

\* ---------------------------------------------------- identity resolver
FetchAndParseUsersNoPush(user_id, resp) ==
    LET r == Call(resp) IN
    IF r.raised
    THEN [raised |-> TRUE, error |-> r.error, queue |-> cache_queue, users |-> << >>]
    ELSE [raised |-> FALSE, error |-> NoError, queue |-> cache_queue,
          users |-> ParseUsers(resp)]

\* Phabricator.__fetch_and_parse_users for one identifier
FetchAndParseUsers(user_id, resp) ==
    LET r == Call(resp) IN
    IF r.raised
    THEN [raised |-> TRUE, error |-> r.error, queue |-> cache_queue, users |-> << >>]
    ELSE [raised |-> FALSE, error |-> NoError,
          queue |-> PushCacheQueue(cache_queue,
                                   Entry(PHAB_USERS, page, user_id)),
          users |-> ParseUsers(resp)]

\* Phabricator.__get_or_fetch_user: the returned user, the new _users and
\* cache queue, and whether user.query was called
GetOrFetchUserNoStore(user_id, resp) ==
    LET f == FetchAndParseUsers(user_id, resp) IN
    IF f.raised
    THEN [raised |-> TRUE, error |-> f.error, user |-> None,
          users |-> users, queue |-> f.queue, called |-> TRUE]
    ELSE IF Len(f.users) = 0
    THEN [raised |-> TRUE, error |-> IndexError, user |-> None,
          users |-> users, queue |-> f.queue, called |-> TRUE]
    ELSE [raised |-> FALSE, error |-> NoError, user |-> Some(f.users[1]),
          users |-> users, queue |-> f.queue, called |-> TRUE]

GetOrFetchUserOrNone(user_id, resp) ==
    IF user_id \in DOMAIN users
    THEN [raised |-> FALSE, error |-> NoError, user |-> Some(users[user_id]),
          users |-> users, queue |-> cache_queue, called |-> FALSE]
    ELSE LET f == FetchAndParseUsers(user_id, resp) IN
         IF f.raised
         THEN [raised |-> TRUE, error |-> f.error, user |-> None,
               users |-> users, queue |-> f.queue, called |-> TRUE]
         ELSE IF Len(f.users) = 0
         THEN [raised |-> FALSE, error |-> NoError, user |-> None,
               users |-> users, queue |-> f.queue, called |-> TRUE]
         ELSE [raised |-> FALSE, error |-> NoError, user |-> Some(f.users[1]),
               users |-> Put(users, user_id, f.users[1]), queue |-> f.queue,
               called |-> TRUE]

GetOrFetchUser(user_id, resp) ==
    IF user_id \in DOMAIN users
    THEN [raised |-> FALSE, error |-> NoError, user |-> Some(users[user_id]),
          users |-> users, queue |-> cache_queue, called |-> FALSE]
    ELSE LET f == FetchAndParseUsers(user_id, resp) IN
         IF f.raised
         THEN [raised |-> TRUE, error |-> f.error, user |-> None,
               users |-> users, queue |-> f.queue, called |-> TRUE]
         ELSE IF Len(f.users) = 0
         THEN [raised |-> TRUE, error |-> IndexError, user |-> None,
               users |-> users, queue |-> f.queue, called |-> TRUE]
         ELSE [raised |-> FALSE, error |-> NoError, user |-> Some(f.users[1]),
               users |-> Put(users, user_id, f.users[1]), queue |-> f.queue,
               called |-> TRUE]

ResolvedEmptiesQueue(user_id, g, resp) ==
    /\ users' = g.users
    /\ last' = IF g.called THEN Called(PHAB_USERS, resp) ELSE last
    /\ cache_queue' = IF pc = "task_owner" /\ idx = Len(tasks)
                      THEN << >> ELSE g.queue
    /\ ncalls' = IF g.called THEN ncalls + 1 ELSE ncalls
    /\ lookups' = IF g.called
                  THEN [lookups EXCEPT ![user_id] = @ + 1]
                  ELSE lookups

\* the effect of one __get_or_fetch_user call on the resolver's state
Resolved(user_id, g, resp) ==
    /\ users' = g.users
    /\ last' = IF g.called THEN Called(PHAB_USERS, resp) ELSE last
    /\ cache_queue' = g.queue
    /\ ncalls' = IF g.called THEN ncalls + 1 ELSE ncalls
    /\ lookups' = IF g.called
                  THEN [lookups EXCEPT ![user_id] = @ + 1]
                  ELSE lookups

\* ------------------------------------------------------------- actions
\* Phabricator.fetch up to the first listing call: a new session
FetchStart(queue) ==
    /\ pc \in {"init", "yielded", "done", "failed"}
    /\ sess < MaxSessions
    /\ sess' = sess + 1
    /\ cache_queue' = queue
    /\ ntasks' = 0
    /\ after' = ABSENT
    /\ pc' = "call_tasks"
    /\ cursor' = ABSENT
    /\ tasks' = << >>
    /\ idx' = 0
    /\ tasks_trans' = EmptyMap
    /\ pending' = << >>
    /\ current' = None
    /\ error' = NoError
    /\ page' = 0
    /\ received' = 0
    /\ yielded' = 0
    /\ pageYielded' = 0
    /\ lookups' = NoLookups
    /\ flushes' = 0
    /\ purged' = Len(cache_queue)
    /\ last' = NoCall
    /\ UNCHANGED <<ncalls, users, cache>>

FetchNoPurge == FetchStart(cache_queue)

Fetch == FetchStart(PurgeCacheQueue(cache_queue))

\* ConduitClient.tasks lines 264-265 and __fetch_tasks lines 86-92; breaks
\* says whether an empty page leaves the loop
ListTasksStep(resp, breaks) ==
    /\ pc = "call_tasks"
    /\ ncalls' = ncalls + 1
    /\ last' = Called(MANIPHEST_TASKS, resp)
    /\ LET r == Call(resp) IN
       IF r.raised
       THEN /\ Raise(r.error)
            /\ UNCHANGED <<cache_queue, cursor, tasks, page, received,
                           pageYielded, flushes>>
       ELSE /\ cache_queue' =
                  PushCacheQueue(cache_queue,
                                 Entry(MANIPHEST_TASKS, page + 1, NULL))
            /\ tasks' = ParseTasks(resp)
            /\ cursor' = resp.result.cursor
            /\ page' = page + 1
            /\ received' = received + Len(resp.result.data)
            /\ pageYielded' = 0
            /\ flushes' = 0
            /\ pc' = IF breaks /\ Len(tasks') = 0 THEN "done" ELSE "call_trans"
            /\ UNCHANGED <<error, current>>
    /\ UNCHANGED <<sess, users, cache, after, idx, tasks_trans, pending,
                   ntasks, yielded, lookups, purged>>

ListTasksOnNoBreak(resp) == ListTasksStep(resp, FALSE)

ListTasksOn(resp) == ListTasksStep(resp, TRUE)

ListTasks ==
    /\ pc = "call_tasks"
    /\ \/ \E resp \in Failures : ListTasksOn(resp)
       \/ \E resp \in Answers(TasksResponses) : ListTasksOn(resp)

\* __fetch_tasks lines 94-95, __fetch_and_parse_tasks_transactions lines
\* 122-124
FetchTransactionsOn(resp) ==
    /\ pc = "call_trans"
    /\ ncalls' = ncalls + 1
    /\ last' = Called(MANIPHEST_TRANSACTIONS, resp)
    /\ LET r == Call(resp) IN
       IF r.raised
       THEN /\ Raise(r.error)
            /\ UNCHANGED <<cache_queue, tasks_trans, pending, idx>>
       ELSE /\ cache_queue' =
                  PushCacheQueue(cache_queue,
                                 Entry(MANIPHEST_TRANSACTIONS, page, NULL))
            /\ tasks_trans' = ParseTasksTransactions(resp)
            /\ pending' = PendingFrom(resp.result, 1)
            /\ idx' = 1
            /\ pc' = IF pending' = << >> THEN "task_author" ELSE "resolve_trans"
            /\ UNCHANGED <<error, current>>
    /\ UNCHANGED <<sess, users, cache, after, cursor, tasks, ntasks, page,
                   received, yielded, pageYielded, lookups, flushes, purged>>

FetchTransactions ==
    /\ pc = "call_trans"
    /\ LET ids == [i \in DOMAIN tasks |-> tasks[i].id] IN
       \/ \E resp \in Failures : FetchTransactionsOn(resp)
       \/ \E resp \in Answers(TransResponses(ids)) : FetchTransactionsOn(resp)

\* __fetch_and_parse_tasks_transactions lines 126-130, one transaction
ResolveTransAuthorOn(resp) ==
    /\ pc = "resolve_trans"
    /\ LET pos == Head(pending)
           tt == tasks_trans[pos.tid][pos.k]
           g == GetOrFetchUser(tt.authorPHID, resp)
       IN /\ Resolved(tt.authorPHID, g, resp)
          /\ IF g.raised
             THEN /\ Raise(g.error)
                  /\ UNCHANGED <<tasks_trans, pending>>
             ELSE /\ tasks_trans' =
                        [tasks_trans EXCEPT ![pos.tid][pos.k].authorData = g.user]
                  /\ pending' = Tail(pending)
                  /\ pc' = IF pending' = << >> THEN "task_author"
                           ELSE "resolve_trans"
                  /\ UNCHANGED <<error, current>>
    /\ UNCHANGED <<sess, cache, after, cursor, tasks, idx, ntasks, page,
                   received, yielded, pageYielded, flushes, purged>>

ResolveTransAuthor ==
    /\ pc = "resolve_trans"
    /\ \/ \E resp \in Failures : ResolveTransAuthorOn(resp)
       \/ \E resp \in Answers(UsersResponses(tasks_trans[Head(pending).tid][Head(pending).k].authorPHID)) :
             ResolveTransAuthorOn(resp)

ResolveAuthorOnSkipping(resp) ==
    /\ pc = "task_author"
    /\ LET g == GetOrFetchUser(tasks[idx].authorPHID, resp)
       IN /\ Resolved(tasks[idx].authorPHID, g, resp)
          /\ IF g.raised
             THEN /\ idx' = IF idx < Len(tasks) THEN idx + 1 ELSE idx
                  /\ pc' = IF idx < Len(tasks) THEN "task_author" ELSE "flush"
                  /\ UNCHANGED <<tasks, error, current>>
             ELSE /\ tasks' = [tasks EXCEPT ![idx].authorData = g.user]
                  /\ pc' = "task_owner"
                  /\ UNCHANGED <<idx, error, current>>
    /\ UNCHANGED <<sess, cache, after, cursor, tasks_trans, pending,
                   ntasks, page, received, yielded, pageYielded,
                   flushes, purged>>

\* __fetch_tasks lines 98-102: the author of the task at idx
ResolveAuthorOn(resp) ==
    /\ pc = "task_author"
    /\ LET g == GetOrFetchUser(tasks[idx].authorPHID, resp)
       IN /\ Resolved(tasks[idx].authorPHID, g, resp)
          /\ IF g.raised
             THEN /\ Raise(g.error)
                  /\ UNCHANGED tasks
             ELSE /\ tasks' = [tasks EXCEPT ![idx].authorData = g.user]
                  /\ pc' = "task_owner"
                  /\ UNCHANGED <<error, current>>
    /\ UNCHANGED <<sess, cache, after, cursor, idx, tasks_trans, pending,
                   ntasks, page, received, yielded, pageYielded,
                   flushes, purged>>

ResolveAuthor ==
    /\ pc = "task_author"
    /\ \/ \E resp \in Failures : ResolveAuthorOn(resp)
       \/ \E resp \in Answers(UsersResponses(tasks[idx].authorPHID)) :
             ResolveAuthorOn(resp)

\* __fetch_tasks lines 103-106: the owner and the transactions of the task
\* at idx, and the yield of the task
ResolveOwnerOn(resp) ==
    /\ pc = "task_owner"
    /\ LET g == GetOrFetchUser(tasks[idx].ownerPHID, resp)
           tid == Str(tasks[idx].id)
       IN /\ Resolved(tasks[idx].ownerPHID, g, resp)
          /\ IF g.raised
             THEN /\ Raise(g.error)
                  /\ UNCHANGED <<tasks, yielded, pageYielded>>
             ELSE IF tid \notin DOMAIN tasks_trans
             THEN /\ Raise(KeyError)
                  /\ tasks' = [tasks EXCEPT ![idx].ownerData = g.user]
                  /\ UNCHANGED <<yielded, pageYielded>>
             ELSE /\ tasks' = [tasks EXCEPT ![idx].ownerData = g.user,
                                            ![idx].transactions = Some(tasks_trans[tid])]
                  /\ current' = Some(tasks'[idx])
                  /\ yielded' = yielded + 1
                  /\ pageYielded' = pageYielded + 1
                  /\ pc' = "yielded"
                  /\ UNCHANGED error
    /\ UNCHANGED <<sess, cache, after, cursor, idx, tasks_trans, pending,
                   ntasks, page, received, flushes, purged>>

ResolveOwner ==
    /\ pc = "task_owner"
    /\ \/ \E resp \in Failures : ResolveOwnerOn(resp)
       \/ \E resp \in Answers(UsersResponses(tasks[idx].ownerPHID)) :
             ResolveOwnerOn(resp)

\* The consumer pulls the next element: fetch line 81 and the step of the
\* loop of line 97
ResumeStep(more, exhausted) ==
    /\ pc = "yielded"
    /\ ntasks' = ntasks + 1
    /\ current' = None
    /\ IF more
       THEN /\ idx' = idx + 1
            /\ pc' = "task_author"
       ELSE /\ idx' = idx
            /\ pc' = exhausted
    /\ UNCHANGED <<sess, ncalls, users, cache_queue, cache, after, cursor,
                   tasks, tasks_trans, pending, error, page, received,
                   yielded, pageYielded, lookups, flushes, purged, last>>

ResumeSkipsRest == ResumeStep(FALSE, "flush")

ResumeNoFlush == ResumeStep(idx < Len(tasks), "cursor")

ResumeEndsRun == ResumeStep(idx < Len(tasks), "done")

ResumePrefetches == ResumeStep(idx < Len(tasks), "call_tasks")

Resume == ResumeStep(idx < Len(tasks), "flush")

\* __fetch_tasks line 108
Flush ==
    /\ pc = "flush"
    /\ cache' = FlushCacheQueue(cache, cache_queue).sink
    /\ cache_queue' = FlushCacheQueue(cache, cache_queue).queue
    /\ flushes' = flushes + 1
    /\ pc' = "cursor"
    /\ UNCHANGED <<sess, ncalls, users, after, cursor, tasks, idx, tasks_trans,
                   pending, current, ntasks, error, page, received, yielded,
                   pageYielded, lookups, purged, last>>

AdvanceKeepsParams ==
    /\ pc = "cursor"
    /\ IF cursor = ABSENT
       THEN Raise(KeyError)
       ELSE IF cursor \in {NULL, ""}
       THEN /\ pc' = "done"
            /\ UNCHANGED <<error, current>>
       ELSE /\ pc' = "call_tasks"
            /\ UNCHANGED <<error, current>>
    /\ UNCHANGED <<sess, ncalls, users, cache_queue, cache, after, cursor,
                   tasks, idx, tasks_trans, pending, ntasks, page, received,
                   yielded, pageYielded, lookups, flushes, purged, last>>

\* ConduitClient.tasks lines 266-270, and fetch line 83 when the pages end
AdvanceStep(falsy) ==
    /\ pc = "cursor"
    /\ IF cursor = ABSENT
       THEN /\ Raise(KeyError)
            /\ UNCHANGED after
       ELSE IF cursor \in falsy
       THEN /\ pc' = "done"
            /\ UNCHANGED <<after, error, current>>
       ELSE /\ after' = cursor
            /\ pc' = "call_tasks"
            /\ UNCHANGED <<error, current>>
    /\ UNCHANGED <<sess, ncalls, users, cache_queue, cache, cursor, tasks, idx,
                   tasks_trans, pending, ntasks, page, received, yielded,
                   pageYielded, lookups, flushes, purged, last>>

AdvanceOnEmpty == AdvanceStep({NULL})

\* `not after` holds of None and of the empty string
Advance == AdvanceStep({NULL, ""})

Next ==
    \/ Fetch
    \/ ListTasks
    \/ FetchTransactions
    \/ ResolveTransAuthor
    \/ ResolveAuthor
    \/ ResolveOwner
    \/ Resume
    \/ Flush
    \/ Advance

Spec == Init /\ [][Next]_vars

\* A step of the session in progress: the calls return, the generator runs
\* to its next yield and the consumer pulls again.  The position of the
\* generator enables at most one of these actions.
Step ==
    \/ ListTasks
    \/ FetchTransactions
    \/ ResolveTransAuthor
    \/ ResolveAuthor
    \/ ResolveOwner
    \/ Resume
    \/ Flush
    \/ Advance

FairSpec == Init /\ [][Next]_vars /\ WF_vars(Step)

\* ------------------------------------------------------------- properties
Falsy == {NULL, ""}
LastPageEmpty == page > 0 /\ tasks = << >>
UsersEntries(unit) ==
    {unit.items[i].u : i \in {j \in DOMAIN unit.items : unit.items[j].m = PHAB_USERS}}
\* the user identifiers the tasks of the current page refer to
PageRefs ==
    UNION {{tasks[i].authorPHID, tasks[i].ownerPHID} : i \in DOMAIN tasks}
    \cup UNION {{tasks_trans[k][i].authorPHID : i \in DOMAIN tasks_trans[k]} :
                  k \in DOMAIN tasks_trans \cap {Str(tasks[i].id) : i \in DOMAIN tasks}}

\* C1: when a session ends normally, the number of tasks it yielded is the
\* sum of the task counts of the listing pages it received (and fetch's own
\* counter agrees).
C1_YieldedEqualsReceived ==
    pc = "done" => (yielded = received /\ ntasks = received)

C1_Witness == pc = "done" /\ page >= 2 /\ yielded >= 2

\* C2: within one session user.query is called at most once for each user
\* identifier.
C2_OneLookupPerUser == \A u \in Users : lookups[u] <= 1

\* a task of the second page of a first session refers, as author and as
\* owner, to a user the first page referred to: the user was looked up once
C2_Witness ==
    /\ sess = 1 /\ page = 2 /\ pc = "yielded"
    /\ Len(cache) = 1
    /\ current[1].authorPHID \in UsersEntries(cache[1])
    /\ current[1].ownerPHID = current[1].authorPHID
    /\ lookups[current[1].authorPHID] = 1

\* C3: every session starts with an empty identity cache, so every user a
\* yielded task refers to was looked up over the network in that session.
C3_SessionScopedUsers ==
    /\ (pc = "call_tasks" /\ page = 0) => users = EmptyMap
    /\ pc = "yielded" =>
          /\ lookups[current[1].authorPHID] >= 1
          /\ lookups[current[1].ownerPHID] >= 1

\* C4: after a page whose tasks were all yielded and the generator resumed,
\* the queue was flushed exactly once for that page and is empty; the page
\* is not flushed before that.
C4_FlushedOncePerPage ==
    /\ flushes <= 1
    /\ pc \in {"call_trans", "resolve_trans", "task_author", "task_owner",
               "yielded", "flush"} => flushes = 0
    /\ (pc = "cursor" \/ (pc = "call_tasks" /\ page > 0)
                      \/ (pc = "done" /\ ~LastPageEmpty)) =>
          /\ flushes = 1
          /\ cache_queue = << >>
          /\ cache[Len(cache)].s = sess
          /\ \E i \in DOMAIN cache[Len(cache)].items :
                /\ cache[Len(cache)].items[i].m = MANIPHEST_TASKS
                /\ cache[Len(cache)].items[i].p = page

C4_Witness == pc = "cursor" /\ flushes = 1 /\ pageYielded = 2

\* C5: a session starts by purging the queue, before any call or push: the
\* queue is then empty, the step issues no call and persists nothing, and no
\* entry of an earlier session is ever in a persisted unit.
C5_PurgeInv ==
    /\ (pc = "call_tasks" /\ page = 0) => cache_queue = << >>
    /\ \A i \in DOMAIN cache : \A j \in DOMAIN cache[i].items :
          cache[i].items[j].s = cache[i].s

C5_PurgeStep ==
    sess' # sess => (cache_queue' = << >> /\ ncalls' = ncalls /\ cache' = cache)

C5_PurgeAtStart == []C5_PurgeInv /\ [][C5_PurgeStep]_vars

\* a session that purged residual entries has persisted a unit
C5_Witness ==
    /\ purged > 0
    /\ Len(cache) > 0
    /\ cache[Len(cache)].s = sess

\* C6: a remote error on the transactions lookup ends the generator with the
\* ConduitError that carries the server's code and message, no task of the
\* page is yielded, and the tasks of the earlier pages stay delivered.
C6_TransErrorAbortsPage ==
    (last.method = MANIPHEST_TRANSACTIONS /\ last.http = 200
        /\ last.error_code # NULL) =>
        /\ pc = "failed"
        /\ error = [type |-> "ConduitError", code |-> last.error_code,
                    info |-> last.error_info]
        /\ pageYielded = 0
        /\ yielded = received - Len(tasks)

C6_Witness ==
    /\ pc = "failed"
    /\ last.method = MANIPHEST_TRANSACTIONS
    /\ last.error_code = "ERR-INVALID-AUTH"
    /\ page = 2
    /\ yielded > 0

\* C7: an empty listing page ends the session normally whatever its cursor:
\* no task is yielded and no call is issued after it.
C7_EmptyInv ==
    LastPageEmpty => (pc = "done" /\ error = NoError /\ pageYielded = 0)

C7_EmptyStep ==
    LastPageEmpty => (sess' # sess \/ (ncalls' = ncalls /\ yielded' = yielded))

C7_EmptyPageStops == []C7_EmptyInv /\ [][C7_EmptyStep]_vars

C7_Witness == LastPageEmpty /\ pc = "done" /\ cursor \in {"c1", "c2"}

\* C8: after a non-empty page with an empty or null cursor no listing call
\* is issued, the session can only end normally with every task yielded and
\* the queue flushed, and it does end (normally, or by a failing call, or by
\* being abandoned).
C8_LastPageInv ==
    /\ (cursor \in Falsy /\ ~LastPageEmpty) => pc # "call_tasks"
    /\ (pc = "done" /\ ~LastPageEmpty) =>
          /\ cursor \in Falsy
          /\ yielded = received
          /\ flushes = 1
          /\ cache_queue = << >>

C8_LastPageStep ==
    (cursor \in Falsy /\ ~LastPageEmpty /\ sess' = sess) =>
        (last'.method # MANIPHEST_TASKS \/ last' = last)

\* page = 0 after the page was received: a new session has started
C8_Terminates ==
    (page > 0 /\ cursor \in Falsy /\ ~LastPageEmpty)
        ~> (pc \in {"done", "failed"} \/ page = 0)

C8_EmptyCursorTerminates ==
    []C8_LastPageInv /\ [][C8_LastPageStep]_vars /\ C8_Terminates

C8_Witness ==
    pc = "done" /\ ~LastPageEmpty /\ cursor = "" /\ page = 2 /\ yielded >= 2

\* C9: a yielded task has authorData, ownerData and a transactions list, and
\* every transaction of the list has authorData.
C9_YieldedIsEnriched ==
    pc = "yielded" =>
        /\ Len(current) = 1
        /\ Len(current[1].authorData) = 1
        /\ Len(current[1].ownerData) = 1
        /\ Len(current[1].transactions) = 1
        /\ \A i \in DOMAIN current[1].transactions[1] :
              Len(current[1].transactions[1][i].authorData) = 1

C9_Witness ==
    /\ pc = "yielded"
    /\ Len(current[1].transactions[1]) = 1
    /\ current[1].transactions[1][1].authorPHID # current[1].authorPHID

\* C10: when a page is flushed, the raw user.query response of every user its
\* tasks refer to is in a unit persisted in the same session.
C10_ReplayComplete ==
    pc = "cursor" =>
        \A u \in PageRefs :
            \E i \in DOMAIN cache : cache[i].s = sess /\ u \in UsersEntries(cache[i])

\* C11: an error of the transport or of the remote side on any call ends the
\* generator with that error; the call is not retried and the failed session
\* issues no call, yields no task, pushes nothing and flushes nothing.
FailedCall == last.http # 200 \/ last.error_code # NULL

C11_ErrorInv ==
    FailedCall =>
        /\ pc = "failed"
        /\ error = Call([http |-> last.http, error_code |-> last.error_code,
                         error_info |-> last.error_info]).error

C11_ErrorStep ==
    (pc = "failed" /\ sess' = sess) =>
        UNCHANGED <<ncalls, yielded, cache_queue, cache, pc>>

C11_ErrorsAreFatal == []C11_ErrorInv /\ [][C11_ErrorStep]_vars

\* an identity lookup failed after a task of the page was delivered
C11_Witness ==
    /\ pc = "failed"
    /\ last.method = PHAB_USERS
    /\ last.http = 500
    /\ pageYielded = 1

\* C12: no read-ahead. The listing call of the next page is made only after
\* every task of the current page was yielded and the page's queue was
\* flushed; a step makes at most one call, and none while the consumer holds
\* a task.
C12_NextPageInv ==
    (pc = "call_tasks" /\ page > 0) =>
        /\ tasks # << >>
        /\ pageYielded = Len(tasks)
        /\ flushes = 1
        /\ cache_queue = << >>
        /\ current = None

C12_CallStep ==
    /\ ncalls' \in {ncalls, ncalls + 1}
    /\ ncalls' # ncalls => current = None
    /\ (ncalls' # ncalls /\ last'.method = MANIPHEST_TASKS /\ page > 0) =>
          (pc = "call_tasks" /\ C12_NextPageInv)

C12_NoReadAhead == []C12_NextPageInv /\ [][C12_CallStep]_vars

\* the listing call of the second page was made
C12_Witness ==
    /\ page = 2
    /\ pc = "call_trans"
    /\ last.method = MANIPHEST_TASKS
    /\ received >= 2

\* The states of the orchestrator's state machine, as positions in
\* __fetch_tasks and ConduitClient.tasks
OrchestratorState ==
    CASE pc = "init" -> "INIT"
      [] pc = "call_tasks" -> "FETCHING_PAGE"
      [] pc \in {"call_trans", "resolve_trans"} -> "RESOLVING_TRANSACTIONS"
      [] pc \in {"task_author", "task_owner", "yielded"} ->
            "RESOLVING_IDENTITIES+EMITTING"
      [] pc \in {"flush", "cursor"} -> "FLUSHING"
      [] pc = "done" -> "DONE"
      [] pc = "failed" -> "FAILED"

\* the transitions of the state machine between different states
MachineTransitions ==
    {<<"INIT", "FETCHING_PAGE">>,
     <<"FETCHING_PAGE", "RESOLVING_TRANSACTIONS">>,
     <<"RESOLVING_TRANSACTIONS", "RESOLVING_IDENTITIES+EMITTING">>,
     <<"RESOLVING_IDENTITIES+EMITTING", "FLUSHING">>,
     <<"FLUSHING", "FETCHING_PAGE">>,
     <<"FLUSHING", "DONE">>}

\* a step of one run that changes the state and does not fail
RunTransition ==
    /\ sess' = sess
    /\ OrchestratorState' # OrchestratorState
    /\ OrchestratorState' # "FAILED"

\* C13 as stated: a run moves only along INIT -> FETCHING_PAGE ->
\* RESOLVING_TRANSACTIONS -> RESOLVING_IDENTITIES+EMITTING -> FLUSHING ->
\* (FETCHING_PAGE | DONE); DONE is entered only from FLUSHING.
C13_DoneOnlyFromFlushing ==
    [][RunTransition =>
          <<OrchestratorState, OrchestratorState'>> \in MachineTransitions]_vars

\* C13: a run moves only along the transitions of the state machine and,
\* on a listing page without tasks, from FETCHING_PAGE to DONE; a fetch
\* starts in FETCHING_PAGE.
C13_Transition ==
    /\ RunTransition =>
          \/ <<OrchestratorState, OrchestratorState'>> \in MachineTransitions
          \/ /\ OrchestratorState = "FETCHING_PAGE"
             /\ OrchestratorState' = "DONE"
             /\ LastPageEmpty'
    /\ (RunTransition /\ OrchestratorState = "FETCHING_PAGE"
          /\ OrchestratorState' = "RESOLVING_TRANSACTIONS") => tasks' # << >>
    /\ sess' # sess => OrchestratorState' = "FETCHING_PAGE"

C13_StateMachine == [][C13_Transition]_vars

\* the run ended on an empty second page, after the cycle through FLUSHING
C13_Witness ==
    /\ pc = "done"
    /\ LastPageEmpty
    /\ page = 2
    /\ yielded > 0

\* a user.query call failed, or answered with no user, while the author or
\* the owner of the task at idx was resolved
TaskIdentityFailed ==
    /\ last.method = PHAB_USERS
    /\ pending = << >>
    /\ FailedCall \/ (pc = "failed" /\ error = IndexError)

\* C14: when resolving the author or the owner of the k-th task of a page
\* fails, the fetch ends with that error before task k is yielded: tasks
\* 1..k-1 of the page were yielded, tasks k.. are not, and the queue of the
\* page is not flushed.
C14_IdentityFailureAtTask ==
    TaskIdentityFailed =>
        /\ pc = "failed"
        /\ error.type \in {"HTTPError", "ConduitError", "IndexError"}
        /\ current = None
        /\ idx \in 1..Len(tasks)
        /\ pageYielded = idx - 1
        /\ yielded = (received - Len(tasks)) + (idx - 1)
        /\ \A i \in 1..Len(tasks) : (tasks[i].transactions # None) <=> (i < idx)
        /\ flushes = 0
        /\ cache_queue # << >>
        /\ cache_queue[1] = Entry(MANIPHEST_TASKS, page, NULL)
        /\ \A n \in 1..Len(cache) :
              ~(cache[n].s = sess /\ cache[n].items[1].p = page)

\* the identity of the second task of a page failed after the first task
\* was delivered
C14_Witness ==
    /\ TaskIdentityFailed
    /\ idx = 2
    /\ pageYielded = 1
    /\ Len(tasks) = 2

\* the positions of the user.query responses for user u in the units this
\* session persisted, and in the queue
PersistedLookups(u) ==
    UNION {{<<n, j>> : j \in {k \in DOMAIN cache[n].items :
                                /\ cache[n].items[k].m = PHAB_USERS
                                /\ cache[n].items[k].u = u}} :
             n \in {i \in DOMAIN cache : cache[i].s = sess}}
QueuedLookups(u) ==
    {j \in DOMAIN cache_queue :
        cache_queue[j].m = PHAB_USERS /\ cache_queue[j].u = u}

\* the responses of one page in call order: the listing, the transactions,
\* then user.query responses, each for a different user
PageResponses(items, s, p) ==
    /\ Len(items) >= 2
    /\ items[1] = [m |-> MANIPHEST_TASKS, s |-> s, p |-> p, u |-> NULL]
    /\ items[2] = [m |-> MANIPHEST_TRANSACTIONS, s |-> s, p |-> p, u |-> NULL]
    /\ \A j \in 3..Len(items) :
          /\ items[j].m = PHAB_USERS
          /\ items[j].s = s
          /\ items[j].p = p
          /\ items[j].u \in Users
    /\ \A j, k \in 3..Len(items) : j # k => items[j].u # items[k].u

\* C15: a flush persists the queue as one unit: the responses of the calls
\* made since the previous flush or purge, in call order (the listing, the
\* transactions, one user.query response per identity-cache miss); every
\* response of a call is in the queue or in exactly one unit.
C15_UnitsInv ==
    /\ \A n \in DOMAIN cache :
          PageResponses(cache[n].items, cache[n].s, cache[n].items[1].p)
    /\ \A n, k \in DOMAIN cache :
          (n < k /\ cache[n].s = cache[k].s) =>
              cache[n].items[1].p < cache[k].items[1].p
    /\ \A n, k \in DOMAIN cache : n < k => cache[n].s <= cache[k].s
    /\ pc = "flush" => PageResponses(cache_queue, sess, page)
    /\ ~FailedCall =>
          \A u \in Users :
              Cardinality(PersistedLookups(u)) + Cardinality(QueuedLookups(u))
                  = lookups[u]

C15_FlushStep ==
    cache' # cache =>
        /\ pc = "flush"
        /\ cache' = Append(cache, [s |-> sess, items |-> cache_queue])
        /\ cache_queue' = << >>

C15_FlushedUnits == []C15_UnitsInv /\ [][C15_FlushStep]_vars

\* a persisted unit with a user.query response, in a session that met that
\* user again
C15_Witness ==
    /\ pc = "cursor"
    /\ page = 2
    /\ Len(cache) = 2
    /\ Len(cache[1].items) = 3
    /\ Len(cache[2].items) = 2

\* the params dictionary of ConduitClient.tasks: the constraints and the
\* order are set once before the loop, only the 'after' key is assigned in it
TasksParams ==
    [constraints |-> [modifiedStart |-> "ts"], order |-> "outdated",
     after |-> after]

\* C16: the first listing call of a session has no 'after' parameter; every
\* later one has as 'after' the cursor of the listing response before it,
\* with the constraints and the order of the first call.
C16_ParamsInv ==
    pc = "call_tasks" =>
        /\ TasksParams.constraints = [modifiedStart |-> "ts"]
        /\ TasksParams.order = "outdated"
        /\ page = 0 => TasksParams.after = ABSENT
        /\ page > 0 =>
              /\ TasksParams.after = cursor
              /\ cursor \notin Falsy \cup {ABSENT}

C16_CallStep ==
    (ncalls' # ncalls /\ last'.method = MANIPHEST_TASKS) =>
        /\ C16_ParamsInv
        /\ TasksParams' = TasksParams

C16_CursorPropagation == []C16_ParamsInv /\ [][C16_CallStep]_vars

\* the third listing call is about to be made with the second cursor
C16_Witness ==
    /\ pc = "call_tasks"
    /\ page = 2
    /\ after = "c2"

\* C17: when the listing response of a page has no 'after' field, the
\* pagination stops normally once the page is yielded and flushed, as it
\* does for a null or empty cursor: no error is raised.
C17_AbsentCursorStops ==
    (page > 0 /\ cursor = ABSENT /\ tasks # << >>
        /\ pageYielded = Len(tasks) /\ flushes = 1) =>
        /\ pc \in {"cursor", "done"}
        /\ error = NoError

\* the session and the page of a persisted unit
UnitPage(unit) == <<unit.s, unit.items[1].p>>

\* C18: only the responses of non-empty pages whose tasks were all yielded
\* are persisted. The responses pushed for a page that fails, for a page the
\* consumer abandons and for the terminal empty page stay in the queue (it
\* is not empty when an empty page ends the fetch), and the purge of the
\* next fetch discards them.
C18_ResidualInv ==
    /\ pc = "flush" => (tasks # << >> /\ pageYielded = Len(tasks))
    /\ (pc = "done" /\ LastPageEmpty) =>
          /\ cache_queue = <<Entry(MANIPHEST_TASKS, page, NULL)>>
          /\ \A n \in DOMAIN cache : UnitPage(cache[n]) # <<sess, page>>
    /\ (pc \in {"call_trans", "resolve_trans", "task_author", "task_owner",
                "yielded"}
          \/ (pc = "failed" /\ page > 0 /\ flushes = 0)) =>
          /\ cache_queue # << >>
          /\ cache_queue[1] = Entry(MANIPHEST_TASKS, page, NULL)
          /\ \A n \in DOMAIN cache : UnitPage(cache[n]) # <<sess, page>>

C18_ResidualStep ==
    /\ cache' # cache =>
          (pc = "flush" /\ tasks # << >> /\ pageYielded = Len(tasks))
    /\ sess' # sess =>
          /\ cache' = cache
          /\ cache_queue' = << >>
          /\ purged' = Len(cache_queue)

C18_OnlyYieldedPagesPersisted ==
    []C18_ResidualInv /\ [][C18_ResidualStep]_vars

\* a fetch that started after an earlier one left responses in the queue
\* ended on an empty page, with nothing of either persisted
C18_Witness ==
    /\ pc = "done"
    /\ LastPageEmpty
    /\ purged > 0
    /\ cache = << >>
    /\ cache_queue # << >>

\* C19: the flush of a page runs when the consumer asks for the element
\* after the last task of the page. While the consumer holds a task, the
\* last one included, the queue holds the responses of the page and none is
\* persisted; a consumer that stops there leaves the page unpersisted.
C19_HeldInv ==
    pc = "yielded" =>
        /\ current = Some(tasks[idx])
        /\ flushes = 0
        /\ PageResponses(cache_queue, sess, page)
        /\ \A n \in DOMAIN cache : UnitPage(cache[n]) # <<sess, page>>

C19_PullStep ==
    /\ (pc' = "flush" /\ pc # "flush") =>
          /\ pc = "yielded"
          /\ idx = Len(tasks)
          /\ ntasks' = ntasks + 1
          /\ UNCHANGED <<cache, cache_queue>>
    /\ cache' # cache => pc = "flush"
    /\ (pc = "yielded" /\ pc' # "yielded") =>
          /\ cache' = cache
          /\ sess' # sess => cache_queue' = << >>

C19_FlushOnNextPull == []C19_HeldInv /\ [][C19_PullStep]_vars

\* the consumer holds the last task of a page whose calls included a
\* user.query
C19_Witness ==
    /\ pc = "yielded"
    /\ idx = Len(tasks)
    /\ Len(tasks) = 2
    /\ Len(cache_queue) >= 3
    /\ cache = << >>

====
